---- MODULE Spec2Model ----
(***************************************************************************)
(* Model of src/data_structures/heap.rs: Heap<T>, an array-backed binary   *)
(* heap with a comparator fixed at construction.                           *)
(*                                                                         *)
(* The state is one heap instance (items, comparator) together with the    *)
(* position of the call in progress: the loops of build_heap, heapify_up   *)
(* and heapify_down advance one iteration per step.  usize arithmetic is   *)
(* kept at a (scaled-down) machine width; arithmetic that overflows either *)
(* panics (overflow checks on, the default of debug builds and of          *)
(* `cargo test`) or wraps (overflow checks off, the default of release     *)
(* builds).  Indices are 0-based as in the source; TLA+ sequences are      *)
(* 1-based, so At(its, k) reads its[k + 1].                                *)
(***************************************************************************)
EXTENDS Integers, Sequences, FiniteSets, TLC

\* ------------------------------------------------------------- bounds
\* Largest number of elements a heap holds in the model.
MaxLen == 4
\* Element values are 1..MaxVal.
MaxVal == 3
\* Width in bits of usize in the model (64 on the usual targets).
WordBits == 4
\* Largest number of consecutive pops on an empty heap that is counted.
MaxEmptyPops == 2

Val == 1..MaxVal

RECURSIVE Pow2(_)
Pow2(n) == IF n = 0 THEN 1 ELSE 2 * Pow2(n - 1)

\* usize::MAX + 1
UsizeRange == Pow2(WordBits)
\* isize::MAX, the largest capacity of a Vec
IsizeMax == Pow2(WordBits - 1) - 1

RECURSIVE SeqsUpTo(_)
SeqsUpTo(n) ==
  IF n = 0 THEN {<<>>}
  ELSE LET shorter == SeqsUpTo(n - 1)
       IN shorter \cup {Append(s, v) : s \in {t \in shorter : Len(t) = n - 1}, v \in Val}

\* The vectors a caller hands to from_vec.
Inputs == SeqsUpTo(MaxLen)

\* ------------------------------------------------------------- comparators
\* new_min / from_vec_min and new_max / from_vec_max, and custom predicates
\* handed to new / from_vec: a non-strict one, the two constant ones and a
\* non-transitive one.
MinMaxComparators == {"lt", "gt"}
CustomComparators == {"le", "always", "never", "cyc"}
Comparators == MinMaxComparators \cup CustomComparators

\* (self.comparator)(&a, &b)
Compare(c, a, b) ==
  CASE c = "lt" -> a < b
    [] c = "gt" -> a > b
    [] c = "le" -> a <= b
    [] c = "always" -> TRUE
    [] c = "never" -> FALSE
    [] c = "cyc" -> (b - a) % 3 = 1

\* ------------------------------------------------------------- Vec<T>
\* self.items[k]
At(its, k) == its[k + 1]

\* An index the slice accepts; any other index panics.
InBounds(its, k) == 0 <= k /\ k < Len(its)

\* self.items.swap(a, b)
Swap(its, a, b) == [its EXCEPT ![a + 1] = its[b + 1], ![b + 1] = its[a + 1]]

\* self.items.swap_remove(k): the element at k is replaced by the last one.
SwapRemove(its, k) ==
  LET n == Len(its)
      front == SubSeq(its, 1, n - 1)
  IN [value |-> its[k + 1],
      items |-> IF k = n - 1 THEN front ELSE [front EXCEPT ![k + 1] = its[n]]]

\* ------------------------------------------------------------- index helpers
\* build_heap starting one slot too far right: len / 2
LastParentIdxHalf(n) == (n \div 2) % UsizeRange

\* (self.len() / 2).wrapping_sub(1)
LastParentIdx(n) == ((n \div 2) - 1) % UsizeRange

\* parent_idx taking the previous slot for the parent
ParentIdxPrev(i) == IF i > 0 THEN <<i - 1>> ELSE <<>>

\* parent_idx: Some((idx - 1) / 2) as <<p>>, None as <<>>
ParentIdx(i) == IF i > 0 THEN <<(i - 1) \div 2>> ELSE <<>>

\* idx * 2 + 1 before it is reduced to the machine width
LeftChildRaw(i) == i * 2 + 1

\* left_child_idx as the wrapping build computes it
LeftChildIdx(i) == LeftChildRaw(i) % UsizeRange

\* left_child_idx(idx) + 1 before it is reduced to the machine width
RightChildRaw(i) == LeftChildIdx(i) + 1

\* right_child_idx as the wrapping build computes it
RightChildIdx(i) == RightChildRaw(i) % UsizeRange

\* children_present accepting the index one past the end
ChildrenPresentInclusive(its, i) == LeftChildIdx(i) <= Len(its)

\* children_present asking for both children
ChildrenPresentBoth(its, i) == RightChildIdx(i) < Len(its)

\* children_present
ChildrenPresent(its, i) == LeftChildIdx(i) < Len(its)

\* ------------------------------------------------------------- sift loops
\* heapify_up that never moves the new element
HeapifyUpStepNoSift(its, i, c) == [kind |-> "break", items |-> its, idx |-> i]

\* heapify_up handing the comparator the parent first and the element second
HeapifyUpStepArgsSwapped(its, i, c) ==
  LET pdx == (i - 1) \div 2
  IN IF i = 0
     THEN [kind |-> "break", items |-> its, idx |-> i]
     ELSE IF Compare(c, At(its, pdx), At(its, i))
          THEN [kind |-> "swap", items |-> Swap(its, i, pdx), idx |-> pdx]
          ELSE [kind |-> "break", items |-> its, idx |-> i]

\* One iteration of the `while let` loop of heapify_up at position i.
\* kind: "swap" (the loop goes on from idx), "break" (the loop is left),
\* "oob" (a slice index out of bounds: the call panics).
HeapifyUpStep(its, i, c) ==
  LET p == ParentIdx(i)
  IN IF p = <<>>
     THEN [kind |-> "break", items |-> its, idx |-> i]
     ELSE LET pdx == p[1]
          IN IF ~(InBounds(its, i) /\ InBounds(its, pdx))
             THEN [kind |-> "oob", items |-> its, idx |-> i]
             ELSE IF Compare(c, At(its, i), At(its, pdx))
                  THEN [kind |-> "swap", items |-> Swap(its, i, pdx), idx |-> pdx]
                  ELSE [kind |-> "break", items |-> its, idx |-> i]

\* Child selection that never looks at the right child
SelectChildLeftOnly(its, i, c) == LeftChildIdx(i)

\* Child selection that takes the right child only when it is favoured
SelectChildTiesLeft(its, i, c) ==
  IF RightChildIdx(i) >= Len(its)
  THEN LeftChildIdx(i)
  ELSE LET ldx == LeftChildIdx(i)
           rdx == RightChildIdx(i)
       IN IF Compare(c, At(its, rdx), At(its, ldx)) THEN rdx ELSE ldx

\* The child heapify_down compares with the node at i (the block that
\* computes cdx); only read when the left child is present.
SelectChild(its, i, c) ==
  IF RightChildIdx(i) >= Len(its)
  THEN LeftChildIdx(i)
  ELSE LET ldx == LeftChildIdx(i)
           rdx == RightChildIdx(i)
       IN IF Compare(c, At(its, ldx), At(its, rdx)) THEN ldx ELSE rdx

\* One iteration of the `while` loop of heapify_down at position i, in a
\* build with overflow checks (chk) or without.  kind: "swap", "break",
\* "oob", or "overflow" (an arithmetic overflow panic).  cdx is <<k>> when
\* child k was selected and <<>> when no child was looked at.
HeapifyDownStep(its, i, c, chk) ==
  LET stay(k) == [kind |-> k, items |-> its, idx |-> i, cdx |-> <<>>]
  IN IF chk /\ LeftChildRaw(i) >= UsizeRange
     THEN stay("overflow")
     ELSE IF ~ChildrenPresent(its, i)
     THEN stay("break")
     ELSE IF chk /\ RightChildRaw(i) >= UsizeRange
     THEN stay("overflow")
     ELSE IF RightChildIdx(i) < Len(its)
             /\ ~(InBounds(its, LeftChildIdx(i)) /\ InBounds(its, RightChildIdx(i)))
     THEN stay("oob")
     ELSE LET cdx == SelectChild(its, i, c)
          IN IF ~(InBounds(its, cdx) /\ InBounds(its, i))
             THEN stay("oob")
             ELSE IF Compare(c, At(its, cdx), At(its, i))
                  THEN [kind |-> "swap", items |-> Swap(its, i, cdx), idx |-> cdx,
                        cdx |-> <<cdx>>]
                  ELSE [kind |-> "break", items |-> its, idx |-> i, cdx |-> <<cdx>>]

\* ------------------------------------------------------------- state
VARIABLES
  overflow_checks,  \* the build: TRUE when arithmetic overflow panics
  status,           \* "none" (no heap yet), "ok", "overflow_panic", "oob_panic"
  items,            \* Heap::items
  comparator,       \* Heap::comparator
  pc,               \* "idle", or the loop the call in progress is in
  idx,              \* the idx of the sift loop in progress
  bidx,             \* the idx of build_heap's for loop
  op,               \* the last call: "none", "new", "from_vec", "add", "pop"
  arg,              \* its argument: the vector of from_vec, <<value>> of add
  before,           \* items when the last call started
  ret,              \* what the last pop returned: <<>> is None, <<v>> is Some(v)
  swaps,            \* swaps done by the sift loop that ran last
  hdCalls,          \* heapify_down calls made by the last call
  expected,         \* the values put in minus the values popped, as counts
  emptyPops,        \* pops on the empty heap since it was last non-empty
  yielded,          \* what the iterator of the last iter() yielded before None
  btree             \* the BTree under construction (b_tree.rs), see NoBTree

heapVars == <<status, items, comparator, pc, idx, bidx, op, arg, before, ret,
              swaps, hdCalls, expected, emptyPops, yielded>>

vars == <<overflow_checks, heapVars, btree>>

\* BTree::new has not been called.  phase: "none", "degree" (degree is
\* computed), "root" (Node::new has returned), "done" (BTree::new has
\* returned) or "panic"; wrapped: an arithmetic result wrapped around.
NoBTree ==
  [phase |-> "none", panic |-> "", wrapped |-> FALSE, branch_factor |-> 0,
   key_size |-> 0, degree |-> 0,
   root |-> [keys |-> <<>>, children |-> <<>>, keys_capacity |-> 0,
             children_capacity |-> 0],
   props |-> [degree |-> 0, max_keys |-> 0, mid_key_index |-> 0]]

\* The multiset of the values of a sequence, as a count for each value.
BagOf(its) == [v \in Val |-> Cardinality({k \in DOMAIN its : its[k] = v})]

\* self.len()
HeapLen == Len(items)

\* self.is_empty()
IsEmpty == HeapLen = 0

Init ==
  /\ overflow_checks \in BOOLEAN
  /\ status = "none"
  /\ items = <<>>
  /\ comparator = "lt"
  /\ pc = "idle"
  /\ idx = 0
  /\ bidx = 0
  /\ op = "none"
  /\ arg = <<>>
  /\ before = <<>>
  /\ ret = <<>>
  /\ swaps = 0
  /\ hdCalls = 0
  /\ expected = BagOf(<<>>)
  /\ emptyPops = 0
  /\ yielded = <<>>
  /\ btree = NoBTree

\* Heap::new(comparator); new_min and new_max pass "lt" and "gt".
New(c) ==
  /\ status = "none"
  /\ status' = "ok"
  /\ items' = <<>>
  /\ comparator' = c
  /\ op' = "new"
  /\ arg' = <<>>
  /\ before' = <<>>
  /\ expected' = BagOf(<<>>)
  /\ UNCHANGED <<overflow_checks, pc, idx, bidx, ret, swaps, hdCalls, emptyPops,
                 yielded>>
  /\ UNCHANGED btree

\* Heap::from_vec(items, comparator) up to the for loop of build_heap;
\* from_vec_min and from_vec_max pass "lt" and "gt".
FromVec(s, c) ==
  /\ status = "none"
  /\ Len(s) <= IsizeMax
  /\ status' = "ok"
  /\ items' = s
  /\ comparator' = c
  /\ pc' = "build_heap"
  /\ bidx' = LastParentIdx(Len(s))
  /\ op' = "from_vec"
  /\ arg' = s
  /\ before' = s
  /\ expected' = BagOf(s)
  /\ hdCalls' = 0
  /\ swaps' = 0
  /\ UNCHANGED <<overflow_checks, idx, ret, emptyPops, yielded>>
  /\ UNCHANGED btree

\* One iteration of `for idx in (0..=last_parent_idx).rev()`: the call of
\* heapify_down(idx).
BuildHeapIter ==
  /\ pc = "build_heap"
  /\ pc' = "heapify_down"
  /\ idx' = bidx
  /\ hdCalls' = hdCalls + 1
  /\ swaps' = 0
  /\ UNCHANGED <<overflow_checks, status, items, comparator, bidx, op, arg,
                 before, ret, expected, emptyPops, yielded>>
  /\ UNCHANGED btree

\* One iteration of the loop of heapify_down; when the loop is left the
\* call returns into build_heap's for loop or out of pop.
HeapifyDownIter ==
  /\ pc = "heapify_down"
  /\ LET r == HeapifyDownStep(items, idx, comparator, overflow_checks)
     IN CASE r.kind = "swap" ->
               /\ items' = r.items
               /\ idx' = r.idx
               /\ swaps' = swaps + 1
               /\ UNCHANGED <<status, pc, bidx>>
          [] r.kind = "break" ->
               /\ idx' = 0
               /\ IF op = "from_vec" /\ bidx > 0
                  THEN pc' = "build_heap" /\ bidx' = bidx - 1
                  ELSE pc' = "idle" /\ bidx' = 0
               /\ UNCHANGED <<status, items, swaps>>
          [] r.kind = "overflow" ->
               /\ status' = "overflow_panic"
               /\ pc' = "idle"
               /\ UNCHANGED <<items, idx, bidx, swaps>>
          [] r.kind = "oob" ->
               /\ status' = "oob_panic"
               /\ pc' = "idle"
               /\ UNCHANGED <<items, idx, bidx, swaps>>
  /\ UNCHANGED <<overflow_checks, comparator, op, arg, before, ret, hdCalls,
                 expected, emptyPops, yielded>>
  /\ UNCHANGED btree

\* Heap::add(value) up to the loop of heapify_up.
Add(v) ==
  /\ status = "ok"
  /\ pc = "idle"
  /\ HeapLen < MaxLen
  /\ HeapLen < IsizeMax
  /\ items' = Append(items, v)
  /\ pc' = "heapify_up"
  /\ idx' = Len(items') - 1
  /\ op' = "add"
  /\ arg' = <<v>>
  /\ before' = items
  /\ ret' = <<>>
  /\ swaps' = 0
  /\ hdCalls' = 0
  /\ expected' = [expected EXCEPT ![v] = @ + 1]
  /\ emptyPops' = 0
  /\ yielded' = <<>>
  /\ UNCHANGED <<overflow_checks, status, comparator, bidx>>
  /\ UNCHANGED btree

\* One iteration of the loop of heapify_up; when the loop is left add returns.
HeapifyUpIter ==
  /\ pc = "heapify_up"
  /\ LET r == HeapifyUpStep(items, idx, comparator)
     IN CASE r.kind = "swap" ->
               /\ items' = r.items
               /\ idx' = r.idx
               /\ swaps' = swaps + 1
               /\ UNCHANGED <<status, pc>>
          [] r.kind = "break" ->
               /\ idx' = 0
               /\ pc' = "idle"
               /\ UNCHANGED <<status, items, swaps>>
          [] r.kind = "oob" ->
               /\ status' = "oob_panic"
               /\ pc' = "idle"
               /\ UNCHANGED <<items, idx, swaps>>
  /\ UNCHANGED <<overflow_checks, comparator, bidx, op, arg, before, ret,
                 hdCalls, expected, emptyPops, yielded>>
  /\ UNCHANGED btree

\* pop without the is_empty guard: swap_remove(0) on the empty Vec panics
PopEmptyUnguarded ==
  /\ status = "ok"
  /\ pc = "idle"
  /\ HeapLen = 0
  /\ emptyPops < MaxEmptyPops
  /\ status' = "oob_panic"
  /\ op' = "pop"
  /\ before' = items
  /\ emptyPops' = emptyPops + 1
  /\ UNCHANGED <<overflow_checks, items, comparator, pc, idx, bidx, arg, ret,
                 swaps, hdCalls, expected, yielded>>
  /\ UNCHANGED btree

\* Heap::pop() on the empty heap: None.
PopEmpty ==
  /\ status = "ok"
  /\ pc = "idle"
  /\ IsEmpty
  /\ emptyPops < MaxEmptyPops
  /\ ret' = <<>>
  /\ op' = "pop"
  /\ arg' = <<>>
  /\ before' = items
  /\ swaps' = 0
  /\ hdCalls' = 0
  /\ emptyPops' = emptyPops + 1
  /\ yielded' = <<>>
  /\ UNCHANGED <<overflow_checks, status, items, comparator, pc, idx, bidx,
                 expected>>
  /\ UNCHANGED btree

\* Heap::pop() on a non-empty heap, up to the loop of heapify_down(0).
PopSome ==
  /\ status = "ok"
  /\ pc = "idle"
  /\ ~IsEmpty
  /\ LET r == SwapRemove(items, 0)
     IN /\ ret' = <<r.value>>
        /\ items' = r.items
        /\ expected' = [expected EXCEPT ![r.value] = @ - 1]
        /\ IF Len(r.items) # 0
           THEN pc' = "heapify_down" /\ hdCalls' = 1
           ELSE pc' = "idle" /\ hdCalls' = 0
  /\ idx' = 0
  /\ op' = "pop"
  /\ arg' = <<>>
  /\ before' = items
  /\ swaps' = 0
  /\ emptyPops' = 0
  /\ yielded' = <<>>
  /\ UNCHANGED <<overflow_checks, status, comparator, bidx>>
  /\ UNCHANGED btree

\* An iterator that walks the slice from its last element to its first
IterYieldReversed(its) == [k \in 1..Len(its) |-> its[Len(its) + 1 - k]]

\* The values slice::Iter yields from position k on, until next() is None.
RECURSIVE IterFrom(_, _)
IterFrom(its, k) ==
  IF k >= Len(its) THEN <<>> ELSE <<At(its, k)>> \o IterFrom(its, k + 1)

\* self.items.iter(), walked by the caller until next() returns None.
IterYield(its) == IterFrom(its, 0)

\* Heap::iter() on a heap no call is in progress on (the shared borrow
\* keeps add and pop out while the iterator lives).
Iter ==
  /\ status = "ok"
  /\ pc = "idle"
  /\ yielded' = IterYield(items)
  /\ op' = "iter"
  /\ arg' = <<>>
  /\ before' = items
  /\ UNCHANGED <<overflow_checks, status, items, comparator, pc, idx, bidx, ret,
                 swaps, hdCalls, expected, emptyPops>>
  /\ UNCHANGED btree

\* from_vec on any vector with any comparator, while no heap exists yet.
FromVecCall ==
  /\ status = "none"
  /\ \E s \in Inputs, c \in Comparators : FromVec(s, c)

Next ==
  \/ \E c \in Comparators : New(c)
  \/ FromVecCall
  \/ BuildHeapIter
  \/ HeapifyDownIter
  \/ \E v \in Val : Add(v)
  \/ HeapifyUpIter
  \/ PopEmpty
  \/ PopSome
  \/ Iter

Spec == Init /\ [][Next]_vars

\* A call in progress runs to completion: nothing suspends it.
FairSpec ==
  /\ Spec
  /\ WF_vars(BuildHeapIter)
  /\ WF_vars(HeapifyDownIter)
  /\ WF_vars(HeapifyUpIter)

\* ------------------------------------------------------------- b_tree.rs
\* The sizes of a key type T, in bytes: zero-sized, or not (1 is the size
\* that lets the largest capacities through).
KeySizes == {0, 1}

\* Vec::with_capacity(cap) for elements of the given size panics with
\* "capacity overflow" when the buffer would exceed isize::MAX bytes.
CapacityOverflow(cap, size) == cap * size > IsizeMax

\* Node::is_leaf
IsLeaf(node) == node.children = <<>>

\* BTree::new(branch_factor) for keys of size ks, up to `let degree`.
BTreeNew(b, ks) ==
  /\ btree.phase = "none"
  /\ LET raw == 2 * b
     IN IF raw >= UsizeRange /\ overflow_checks
        THEN btree' = [btree EXCEPT !.phase = "panic", !.panic = "overflow",
                                    !.branch_factor = b, !.key_size = ks]
        ELSE btree' = [btree EXCEPT !.phase = "degree", !.branch_factor = b,
                                    !.key_size = ks, !.degree = raw % UsizeRange,
                                    !.wrapped = raw >= UsizeRange]
  /\ UNCHANGED <<overflow_checks, heapVars>>

\* Node::new(degree, None, None): keys with capacity degree - 1, children
\* (nodes, never zero-sized) with capacity degree.
NodeNew ==
  /\ btree.phase = "degree"
  /\ LET raw == btree.degree - 1
         cap == raw % UsizeRange
     IN IF raw < 0 /\ overflow_checks
        THEN btree' = [btree EXCEPT !.phase = "panic", !.panic = "overflow"]
        ELSE IF CapacityOverflow(cap, btree.key_size)
                \/ CapacityOverflow(btree.degree, 1)
        THEN btree' = [btree EXCEPT !.phase = "panic", !.panic = "capacity",
                                    !.wrapped = @ \/ raw < 0]
        ELSE btree' = [btree EXCEPT !.phase = "root", !.wrapped = @ \/ raw < 0,
                                    !.root = [keys |-> <<>>, children |-> <<>>,
                                              keys_capacity |-> cap,
                                              children_capacity |-> btree.degree]]
  /\ UNCHANGED <<overflow_checks, heapVars>>

\* BTreeProps::new(degree), after which BTree::new returns.
BTreePropsNew ==
  /\ btree.phase = "root"
  /\ LET raw == btree.degree - 1
     IN IF raw < 0 /\ overflow_checks
        THEN btree' = [btree EXCEPT !.phase = "panic", !.panic = "overflow"]
        ELSE btree' = [btree EXCEPT !.phase = "done", !.wrapped = @ \/ raw < 0,
                                    !.props = [degree |-> btree.degree,
                                               max_keys |-> raw % UsizeRange,
                                               mid_key_index |-> (raw % UsizeRange) \div 2]]
  /\ UNCHANGED <<overflow_checks, heapVars>>

BTreeNext ==
  \/ \E b \in 0..(UsizeRange - 1), ks \in KeySizes : BTreeNew(b, ks)
  \/ NodeNew
  \/ BTreePropsNew

BTreeSpec == Init /\ [][BTreeNext]_vars

\* ------------------------------------------------------------- whole calls
\* The calls as functions of the heap, for heaps a Vec can hold (no index
\* computation overflows on them): the loops above run to their end.

\* heapify_up(i): the items when the loop is left.
RECURSIVE HeapifyUp(_, _, _)
HeapifyUp(its, i, c) ==
  LET r == HeapifyUpStep(its, i, c)
  IN IF r.kind = "swap" THEN HeapifyUp(r.items, r.idx, c) ELSE r.items

\* heapify_down(i): the items when the loop is left.
RECURSIVE HeapifyDown(_, _, _)
HeapifyDown(its, i, c) ==
  LET r == HeapifyDownStep(its, i, c, FALSE)
  IN IF r.kind = "swap" THEN HeapifyDown(r.items, r.idx, c) ELSE r.items

\* add(v): the items afterwards.
AddResult(its, v, c) ==
  LET pushed == Append(its, v)
  IN HeapifyUp(pushed, Len(pushed) - 1, c)

\* pop(): the value returned (<<>> is None) and the items afterwards.
PopResult(its, c) ==
  IF Len(its) = 0
  THEN [ret |-> <<>>, items |-> its]
  ELSE LET r == SwapRemove(its, 0)
       IN [ret |-> <<r.value>>,
           items |-> IF Len(r.items) # 0 THEN HeapifyDown(r.items, 0, c) ELSE r.items]

\* The values of the pops that follow until pop returns None.
RECURSIVE PopAll(_, _)
PopAll(its, c) ==
  LET r == PopResult(its, c)
  IN IF r.ret = <<>> THEN <<>> ELSE r.ret \o PopAll(r.items, c)

\* new(c) followed by add of each element of s in order: the items.
RECURSIVE AddAll(_, _)
AddAll(s, c) ==
  IF s = <<>> THEN <<>>
  ELSE AddResult(AddAll(SubSeq(s, 1, Len(s) - 1), c), s[Len(s)], c)

\* A call has completed and left a heap behind.
Completed == pc = "idle" /\ status = "ok"

\* The whole-call functions give what the stepped calls leave behind.
WholeCallsAgree ==
  (Completed /\ Len(before) <= IsizeMax) =>
     /\ op = "add" => items = AddResult(before, arg[1], comparator)
     /\ op = "pop" => /\ items = PopResult(before, comparator).items
                      /\ ret = PopResult(before, comparator).ret

\* ------------------------------------------------------------- claims
\* The comparator does not favour its[k] over its parent, at every non-root k.
HeapOrdered(its, c) ==
  \A k \in 1..(Len(its) - 1) : ~Compare(c, At(its, k), At(its, (k - 1) \div 2))

\* C1: after any sequence of completed from_vec / add / pop calls on a
\* min-heap or a max-heap, comparator(items[i], items[(i-1)/2]) is false at
\* every index i with 0 < i < len.
HeapProperty ==
  (Completed /\ comparator \in MinMaxComparators) => HeapOrdered(items, comparator)

\* A pop of a min-heap of at least four elements that had to sift down.
HeapPropertyWitness ==
  /\ Completed
  /\ comparator = "lt"
  /\ op = "pop"
  /\ Len(before) = MaxLen
  /\ swaps > 0
  /\ HeapOrdered(items, comparator)

SeqMin(its) == CHOOSE v \in Val : (\E k \in DOMAIN its : its[k] = v)
                                   /\ (\A k \in DOMAIN its : v <= its[k])

SeqMax(its) == CHOOSE v \in Val : (\E k \in DOMAIN its : its[k] = v)
                                   /\ (\A k \in DOMAIN its : v >= its[k])

\* C2: every pop on a non-empty min-heap (max-heap) returns a minimum
\* (maximum) of the values the heap held immediately before that pop,
\* whatever calls came before and however the heap was created.
PopReturnsExtreme ==
  (op = "pop" /\ before # <<>>) =>
     /\ comparator = "lt" => ret = <<SeqMin(before)>>
     /\ comparator = "gt" => ret = <<SeqMax(before)>>

\* A pop of a max-heap whose root was not the only candidate: the maximum
\* is returned from a heap that also holds smaller values.
PopReturnsExtremeWitness ==
  /\ Completed
  /\ op = "pop"
  /\ comparator = "gt"
  /\ Len(before) >= 3
  /\ ret = <<SeqMax(before)>>
  /\ SeqMin(before) < SeqMax(before)

NonDecreasing(s) == \A k \in 1..(Len(s) - 1) : s[k] <= s[k + 1]

NonIncreasing(s) == \A k \in 1..(Len(s) - 1) : s[k] >= s[k + 1]

\* C3: popping a min-heap (max-heap) until pop returns None yields its
\* values in non-decreasing (non-increasing) order, and the values popped
\* are a permutation of the values the heap held.
ExtractionOrder ==
  (Completed /\ comparator \in MinMaxComparators) =>
     LET out == PopAll(items, comparator)
     IN /\ comparator = "lt" => NonDecreasing(out)
        /\ comparator = "gt" => NonIncreasing(out)
        /\ BagOf(out) = BagOf(items)
        /\ Len(out) = Len(items)

\* A min-heap of the largest size whose array is not itself sorted and holds
\* a repeated value.
ExtractionOrderWitness ==
  /\ Completed
  /\ comparator = "lt"
  /\ Len(items) = MaxLen
  /\ ~NonDecreasing(items)
  /\ \E v \in Val : BagOf(items)[v] >= 2
  /\ NonDecreasing(PopAll(items, comparator))

\* C4: from_vec on a vector of fewer than 2 elements skips the loop of
\* build_heap: no heapify_down call is made, the call completes and the
\* heap holds the input unchanged.
BuildLoopSkippedForShortInput ==
  (op = "from_vec" /\ Len(arg) < 2) =>
     /\ hdCalls = 0
     /\ status = "ok"
     /\ items = arg

\* C5: for every input vector s, of every length, popping everything from
\* from_vec_min(s) yields the sequence that popping everything from the heap
\* built by new_min() and add of each element of s yields.
BulkBuildEquivalence ==
  (op = "from_vec" /\ comparator = "lt" /\ pc = "idle") =>
     /\ status = "ok"
     /\ PopAll(items, "lt") = PopAll(AddAll(arg, "lt"), "lt")

\* C6: add increases len() by exactly 1; pop on a non-empty heap returns
\* Some and decreases len() by exactly 1; pop on the empty heap returns None
\* and leaves len() at 0; from_vec(s) yields a heap whose len() is Len(s).
SizeConservation ==
  /\ op = "add" => Len(items) = Len(before) + 1
  /\ (op = "pop" /\ before # <<>>) => ret # <<>> /\ Len(items) = Len(before) - 1
  /\ (op = "pop" /\ before = <<>>) => ret = <<>> /\ Len(items) = 0
  /\ (op = "from_vec" /\ pc = "idle") => status = "ok" /\ Len(items) = Len(arg)

\* C7: pop on the empty heap, any number of times in a row, returns None,
\* does not panic and leaves the heap as it was (no items, the same
\* comparator), so that an add that follows puts its value at the root and
\* the pop after it returns that value.
IdempotentEmptiness ==
  /\ (op = "pop" /\ before = <<>>) =>
        /\ ret = <<>>
        /\ items = <<>>
        /\ status = "ok"
        /\ pc = "idle"
        /\ \A v \in Val :
             PopResult(AddResult(items, v, comparator), comparator).ret = <<v>>
  /\ (op = "add" /\ before = <<>> /\ pc = "idle") => status = "ok" /\ items = arg
  /\ (op = "pop" /\ Len(before) = 1) => ret = before /\ items = <<>>

\* The empty heap has been popped as many times in a row as is counted.
IdempotentEmptinessWitness ==
  /\ op = "pop"
  /\ before = <<>>
  /\ emptyPops = MaxEmptyPops
  /\ emptyPops >= 2
  /\ ret = <<>>
  /\ status = "ok"

\* C8: the values in items are, as a multiset, the values passed to
\* from_vec plus the values passed to add minus the values the pops
\* returned, and from_vec(s) yields a heap holding exactly the elements of s.
ElementConservation ==
  /\ BagOf(items) = expected
  /\ (op = "from_vec" /\ pc = "idle") => status = "ok" /\ BagOf(items) = BagOf(arg)

\* C9: whatever total predicate the comparator is, no index read or swapped
\* by add, pop or from_vec (on a vector of at least 2 elements) is out of
\* bounds: no call ends in the slice's index panic.
NoOutOfBounds ==
  (op = "from_vec" => Len(arg) >= 2) => status # "oob_panic"

\* A pop that sifted down under the non-transitive comparator, and a
\* from_vec that sifted down under the always-true one.
NoOutOfBoundsWitness ==
  /\ Completed
  /\ swaps > 0
  /\ \/ comparator = "cyc" /\ op = "pop" /\ Len(before) = MaxLen
     \/ comparator = "always" /\ op = "from_vec" /\ Len(arg) = MaxLen

RECURSIVE Log2Floor(_)
Log2Floor(n) == IF n <= 1 THEN 0 ELSE 1 + Log2Floor(n \div 2)

\* C10: every call of add, pop and from_vec comes to an end (it returns, or
\* it unwinds with a panic), for every content and every comparator; a run
\* of a sift loop makes at most floor(log2(len)) swaps, idx going strictly
\* down in heapify_up and strictly up in heapify_down at each iteration
\* that stays in the loop.
Termination ==
  /\ [](swaps <= Log2Floor(Len(items)))
  /\ [][(pc = "heapify_up" /\ pc' = "heapify_up") => idx' < idx]_vars
  /\ [][(pc = "heapify_down" /\ pc' = "heapify_down") => idx' > idx]_vars
  /\ (pc # "idle") ~> (pc = "idle")

\* A sift loop made as many swaps as the tree is high, under a comparator
\* that always asks for a swap.
TerminationWitness ==
  /\ pc = "idle"
  /\ comparator = "always"
  /\ Len(items) = MaxLen
  /\ swaps = Log2Floor(Len(items))
  /\ swaps >= 2

\* C11: iter() yields items[0], items[1], ..., items[len-1] in index order
\* and then ends; it leaves items (and so len and the pops that follow) as
\* they were; on a non-empty heap its first element is the value the next
\* pop returns.
IterIsReadOnlyView ==
  op = "iter" =>
     /\ yielded = items
     /\ Len(yielded) = HeapLen
     /\ items = before
     /\ status = "ok"
     /\ PopAll(items, comparator) = PopAll(before, comparator)
     /\ items # <<>> => <<yielded[1]>> = PopResult(items, comparator).ret

\* iter() on a full min-heap whose array order is not the sorted order.
IterIsReadOnlyViewWitness ==
  /\ op = "iter"
  /\ comparator = "lt"
  /\ HeapLen = MaxLen
  /\ ~NonDecreasing(items)
  /\ yielded = items
  /\ yielded # PopAll(items, comparator)

\* C12: for a vector of len >= 2, the index len / 2 - 1 where build_heap
\* starts is the last one with a child (children_present holds for it and
\* for no larger index a Vec can have); build_heap calls heapify_down once
\* for each index from len / 2 - 1 down to 0, in decreasing order (the k-th
\* call is for index len / 2 - k, and len / 2 calls are made); when it
\* returns, the heap property holds over the whole array (for the min and
\* max comparators, which keep the comparator contract).
BuildStartsAtLastParent ==
  /\ []((op = "from_vec" /\ Len(arg) >= 2) =>
          LET n == Len(arg)
              start == LastParentIdx(n)
          IN /\ HeapLen = n
             /\ start = n \div 2 - 1
             /\ ChildrenPresent(items, start)
             /\ \A j \in (start + 1)..IsizeMax : ~ChildrenPresent(items, j)
             /\ pc = "build_heap" => bidx = start - hdCalls /\ bidx >= 0
             /\ pc = "heapify_down" => bidx = start - (hdCalls - 1) /\ idx >= bidx
             /\ pc = "idle" =>
                  /\ status = "ok"
                  /\ hdCalls = n \div 2
                  /\ bidx = 0
                  /\ comparator \in MinMaxComparators => HeapOrdered(items, comparator))
  /\ [][(op = "from_vec" /\ Len(arg) >= 2 /\ pc = "build_heap" /\ pc' = "heapify_down")
          => idx' = Len(arg) \div 2 - hdCalls' /\ hdCalls' = hdCalls + 1]_vars
  /\ [][(op = "from_vec" /\ Len(arg) >= 2 /\ pc = "heapify_down" /\ pc' = "idle")
          => bidx = 0]_vars

\* from_vec_min has returned on a full-size vector that it had to reorder,
\* after one heapify_down call per parent.
BuildStartsAtLastParentWitness ==
  /\ op = "from_vec"
  /\ pc = "idle"
  /\ status = "ok"
  /\ comparator = "lt"
  /\ Len(arg) = MaxLen
  /\ hdCalls = MaxLen \div 2
  /\ hdCalls >= 2
  /\ items # arg
  /\ HeapOrdered(items, comparator)

\* The indices on the way from i up to the root, both included.
RECURSIVE PathToRoot(_)
PathToRoot(i) == IF i = 0 THEN {0} ELSE {i} \cup PathToRoot((i - 1) \div 2)

\* Walking up from p in the array its of before the call: the first position
\* that is the root or whose parent v is not favoured over.
RECURSIVE StopPos(_, _, _, _)
StopPos(its, p, v, c) ==
  IF p = 0 \/ ~Compare(c, v, At(its, (p - 1) \div 2))
  THEN p
  ELSE StopPos(its, (p - 1) \div 2, v, c)

\* C13: add(v) on a heap of length n changes only slots on the path from
\* the new leaf n to the root.  v ends at the first position of that path,
\* walking up from the leaf, that is the root or whose parent v is not
\* favoured over; every ancestor v passed is one level further down the
\* path, everything else is where it was; under a strict comparator (lt,
\* gt) no ancestor v passed equals v.
AddFrame ==
  (op = "add" /\ pc = "idle") =>
     LET n == Len(before)
         v == arg[1]
         path == PathToRoot(n)
         f == StopPos(before, n, v, comparator)
     IN /\ status = "ok"
        /\ HeapLen = n + 1
        /\ \A k \in 0..(n - 1) : k \notin path => At(items, k) = At(before, k)
        /\ f \in path
        /\ At(items, f) = v
        /\ \A q \in path : q > f => At(items, q) = At(before, (q - 1) \div 2)
        /\ \A q \in path : q < f => At(items, q) = At(before, q)
        /\ swaps = Cardinality({q \in path : q > f})
        /\ comparator \in MinMaxComparators =>
             \A q \in path : q > f => At(before, (q - 1) \div 2) # v

\* An add to a min-heap of three elements that took the new value from the
\* leaf to the root, past two ancestors, with a slot off the path.
AddFrameWitness ==
  /\ op = "add"
  /\ pc = "idle"
  /\ comparator = "lt"
  /\ Len(before) = MaxLen - 1
  /\ Len(before) >= 3
  /\ swaps >= 2
  /\ At(items, 0) = arg[1]
  /\ \E k \in 0..(Len(before) - 1) : k \notin PathToRoot(Len(before))

\* An add whose value stopped right under a parent equal to it.
AddFrameTieWitness ==
  /\ op = "add"
  /\ pc = "idle"
  /\ comparator = "lt"
  /\ Len(before) >= 1
  /\ swaps = 0
  /\ At(before, (Len(before) - 1) \div 2) = arg[1]

\* Node i of an array of n slots has a left child / a right child.
HasLeft(n, i) == 2 * i + 1 < n

HasRight(n, i) == 2 * i + 2 < n

\* The child the claim names for node i, which has a left child: the left
\* one when there is no right one, otherwise the left one when the
\* comparator favours it over the right one, and the right one when not.
NamedChild(its, i, c) ==
  IF ~HasRight(Len(its), i) THEN 2 * i + 1
  ELSE IF Compare(c, At(its, 2 * i + 1), At(its, 2 * i + 2)) THEN 2 * i + 1
  ELSE 2 * i + 2

\* The other child of i's parent.
Sibling(k) == IF k % 2 = 1 THEN k + 1 ELSE k - 1

\* What C14 says of the iteration of heapify_down about to run.
ChildSelectionAtIteration ==
  pc = "heapify_down" =>
     LET r == HeapifyDownStep(items, idx, comparator, overflow_checks)
     IN IF HasLeft(HeapLen, idx)
        THEN LET child == NamedChild(items, idx, comparator)
             IN /\ r.cdx = <<child>>
                /\ (r.kind = "swap") = Compare(comparator, At(items, child), At(items, idx))
                /\ r.kind \in {"swap", "break"}
                /\ (HasRight(HeapLen, idx) /\ comparator \in MinMaxComparators) =>
                      /\ ~Compare(comparator, At(items, Sibling(child)), At(items, child))
                      /\ At(items, 2 * idx + 1) = At(items, 2 * idx + 2)
                           => child = 2 * idx + 2
        ELSE r.cdx = <<>> /\ r.kind # "swap"

\* C14: at every iteration of heapify_down at node idx the child compared
\* with the node is the left one when there is no right one, otherwise the
\* left one if comparator(left, right) and the right one if not (ties go
\* right), so under the min and max comparators the sibling is never
\* favoured over the selected child; the loop goes on, from the selected
\* child and with node and child swapped, exactly when idx has a left child
\* and comparator(selected child, node) holds, and stops otherwise.
ChildSelection ==
  /\ []ChildSelectionAtIteration
  /\ [][pc = "heapify_down" =>
          /\ (pc' = "heapify_down") =
                (HasLeft(HeapLen, idx)
                 /\ Compare(comparator, At(items, NamedChild(items, idx, comparator)),
                            At(items, idx)))
          /\ pc' = "heapify_down" =>
                /\ idx' = NamedChild(items, idx, comparator)
                /\ items' = Swap(items, idx, idx')
          /\ pc' # "heapify_down" => items' = items]_vars

\* An iteration at the root of a min-heap whose two children are equal and
\* favoured over the root: the right one is selected and swapped up.
ChildSelectionWitness ==
  /\ pc = "heapify_down"
  /\ status = "ok"
  /\ comparator = "lt"
  /\ idx = 0
  /\ HasRight(HeapLen, idx)
  /\ At(items, 1) = At(items, 2)
  /\ At(items, 2) < At(items, 0)
  /\ HeapifyDownStep(items, idx, comparator, overflow_checks).cdx = <<2>>

\* C15: for every branch_factor, 0 included, BTree::new(branch_factor)
\* computes degree = 2 * branch_factor, max_keys = degree - 1 and
\* mid_key_index = (degree - 1) / 2 with no unsigned underflow or overflow
\* (nothing panics, nothing wraps), and the root it creates has no keys and
\* no children (a leaf).
BTreeConstruction ==
  btree.phase # "none" =>
     /\ btree.phase # "panic"
     /\ ~btree.wrapped
     /\ btree.degree = 2 * btree.branch_factor
     /\ btree.phase \in {"root", "done"} =>
          /\ btree.root.keys = <<>>
          /\ btree.root.children = <<>>
          /\ IsLeaf(btree.root)
     /\ btree.phase = "done" =>
          /\ btree.props.degree = btree.degree
          /\ btree.props.max_keys = btree.degree - 1
          /\ btree.props.mid_key_index = (btree.degree - 1) \div 2

====
